---- MODULE Spec2Model ----
(***************************************************************************)
(* State-machine model of the LTO plugin bridge of mold (elf/lto.cc).     *)
(*                                                                         *)
(* The linker core and the compiler backend are the two callers.  The     *)
(* core calls read_lto_object, do_lto and lto_cleanup; while one of the   *)
(* backend's hooks (onload, claim_file, all_symbols_read, cleanup) is     *)
(* running, the backend may call back any handler of the capability table *)
(* built by load_plugin.  Everything is single-threaded, so the position  *)
(* of the one thread of control is the variable pc.                       *)
(*                                                                         *)
(* assert() is modelled as checked: a failed assertion ends the process.  *)
(* Fatal() ends the process as well.                                      *)
(*                                                                         *)
(* Parts of the linker that elf/lto.cc calls but does not contain (the    *)
(* link-wide symbol table, ObjectFile::parse and resolve_symbols, and the *)
(* caller of read_lto_object that numbers and registers the object) are   *)
(* modelled after the design document; they are marked where they occur.  *)
(***************************************************************************)
EXTENDS Integers, Sequences, FiniteSets, TLC

\* ------------------------------------------------------------------ bounds

\* Object files created in one run: IR objects, objects handed back by the
\* backend, ordinary inputs of the core.
MaxFiles == 3
\* Plugin symbol records per add_symbols call.
MaxSyms == 2

\* ------------------------------------------------------------- vocabulary

Names == {"foo", "bar"}
NameOrder == <<"foo", "bar">>

\* enum values of the plugin API (lto.h), by name
DefKinds == {"LDPK_DEF", "LDPK_WEAKDEF", "LDPK_UNDEF", "LDPK_WEAKUNDEF", "LDPK_COMMON"}
SymbolTypes == {"LDST_UNKNOWN", "LDST_FUNCTION", "LDST_VARIABLE"}
Visibilities == {"LDPV_DEFAULT", "LDPV_PROTECTED", "LDPV_INTERNAL", "LDPV_HIDDEN"}
Sizes == {0, 8}

PluginSymbol == [name : Names, def : DefKinds, symbol_type : SymbolTypes,
                 visibility : Visibilities, size : Sizes]

\* ElfSym<E> esym = {}: every field zero
ZeroElfSym == [st_shndx |-> "SHN_UNDEF", st_bind |-> "STB_LOCAL", st_type |-> "STT_NOTYPE",
               st_visibility |-> "STV_DEFAULT", st_size |-> 0]

\* the switch on psym.def with the STB_WEAK assignments left out
place_def_never_weak(psym) ==
  CASE psym.def = "LDPK_DEF" -> [ZeroElfSym EXCEPT !.st_shndx = "SHN_ABS"]
    [] psym.def = "LDPK_WEAKDEF" -> [ZeroElfSym EXCEPT !.st_shndx = "SHN_ABS"]
    [] psym.def = "LDPK_UNDEF" -> [ZeroElfSym EXCEPT !.st_shndx = "SHN_UNDEF"]
    [] psym.def = "LDPK_WEAKUNDEF" -> [ZeroElfSym EXCEPT !.st_shndx = "SHN_UNDEF"]
    [] psym.def = "LDPK_COMMON" -> [ZeroElfSym EXCEPT !.st_shndx = "SHN_COMMON"]
    [] OTHER -> ZeroElfSym

\* switch (psym.def): section index and binding
place_def(psym) ==
  CASE psym.def = "LDPK_DEF" -> [ZeroElfSym EXCEPT !.st_shndx = "SHN_ABS"]
    [] psym.def = "LDPK_WEAKDEF" ->
         [ZeroElfSym EXCEPT !.st_shndx = "SHN_ABS", !.st_bind = "STB_WEAK"]
    [] psym.def = "LDPK_UNDEF" -> [ZeroElfSym EXCEPT !.st_shndx = "SHN_UNDEF"]
    [] psym.def = "LDPK_WEAKUNDEF" ->
         [ZeroElfSym EXCEPT !.st_shndx = "SHN_UNDEF", !.st_bind = "STB_WEAK"]
    [] psym.def = "LDPK_COMMON" -> [ZeroElfSym EXCEPT !.st_shndx = "SHN_COMMON"]
    [] OTHER -> ZeroElfSym

to_elf_sym(psym) ==
  LET e1 == place_def(psym)
      e2 == CASE psym.symbol_type = "LDST_UNKNOWN" -> e1
              [] psym.symbol_type = "LDST_FUNCTION" -> [e1 EXCEPT !.st_type = "STT_FUNC"]
              [] psym.symbol_type = "LDST_VARIABLE" -> [e1 EXCEPT !.st_type = "STT_OBJECT"]
              [] OTHER -> e1
      e3 == CASE psym.visibility = "LDPV_DEFAULT" -> e2
              [] psym.visibility = "LDPV_PROTECTED" ->
                   [e2 EXCEPT !.st_visibility = "STV_PROTECTED"]
              [] psym.visibility = "LDPV_INTERNAL" ->
                   [e2 EXCEPT !.st_visibility = "STV_INTERNAL"]
              [] psym.visibility = "LDPV_HIDDEN" -> [e2 EXCEPT !.st_visibility = "STV_HIDDEN"]
              [] OTHER -> e2
  IN [e3 EXCEPT !.st_size = psym.size]

\* ------------------------------------------------------------------ inputs

\* Symbol arrays the backend passes to add_symbols in the session model:
\* distinct names, at most MaxSyms records; an IR object defines or references
\* foo and may define bar.
SessionDefs == {"LDPK_DEF", "LDPK_UNDEF"}

SessionSymbol(n, d) ==
  [name |-> n, def |-> d, symbol_type |-> "LDST_FUNCTION",
   visibility |-> "LDPV_DEFAULT", size |-> 0]

SessionSymbols ==
  {SessionSymbol("foo", d) : d \in SessionDefs} \cup {SessionSymbol("bar", "LDPK_DEF")}

SeqsUpTo(S, n) == UNION {[1..k -> S] : k \in 0..n}

Min(a, b) == IF a < b THEN a ELSE b

\* record i names the i-th name: a file's symbol table names a symbol once
PluginInputs ==
  {s \in SeqsUpTo(SessionSymbols, Min(MaxSyms, Len(NameOrder))) :
     \A i \in 1..Len(s) : s[i].name = NameOrder[i]}

\* what a backend that calls add_symbols outside a claim passes
StrayInputs == {<<SessionSymbol("foo", "LDPK_DEF")>>}

\* Symbol tables of the ELF files read by the ordinary object-file loader:
\* (name, section index) pairs, global binding.
ElfDefined(n) == [name |-> n, esym |-> [ZeroElfSym EXCEPT !.st_shndx = "SHN_SECTION",
                                                     !.st_bind = "STB_GLOBAL"]]

ElfInputs == {<<ElfDefined("foo")>>,
              <<ElfDefined("foo"), ElfDefined("bar")>>}

CoreInputs == {<<ElfDefined("foo")>>}

\* ------------------------------------------------------------------- state

VARIABLES
  phase,                  \* static int phase
  once_flag,              \* static std::once_flag flag of read_lto_object
  claim_file_hook,        \* registered? (a null pointer otherwise)
  all_symbols_read_hook,
  cleanup_hook,
  plugin_symbols,         \* static std::vector<PluginSymbol>
  file_priority,          \* static i64 file_priority of add_input_file
  plugin_arg,             \* ctx.arg.plugin is non-empty
  files,                  \* every object file created so far; its index is its address
  objs,                   \* ctx.objs
  symtab,                 \* link-wide symbol table: name -> owning file
  ctx_file_priority,      \* the core's priority counter for discovered inputs
  pc,                     \* where the single thread of control is
  cur,                    \* the object read_lto_object is building
  failure,                \* why the process ended
  psyms_out,              \* the backend's array and the status, inside get_symbols_v2/v3
  load_calls,             \* executions of load_plugin
  onload_calls,           \* invocations of the backend's onload
  asr_calls,              \* invocations of all_symbols_read_hook
  cleanup_calls,          \* lto_cleanup has been called
  enumerated,             \* records the backend passed to add_symbols in the claim in progress
  conv_in, conv_out       \* a record handed to to_elf_sym, and the result

vars == <<phase, once_flag, claim_file_hook, all_symbols_read_hook, cleanup_hook,
          plugin_symbols, file_priority, plugin_arg, files, objs, symtab,
          ctx_file_priority, pc, cur, failure, psyms_out, load_calls, onload_calls,
          asr_calls, cleanup_calls, enumerated, conv_in, conv_out>>

\* first value of add_input_file's static file_priority
FirstAddedPriority == 100

\* first value of the core's counter (Context::file_priority); inputs the core
\* discovers are numbered above the range add_input_file allocates from
FirstCtxPriority == 10000

NullSym == ""
NotInterned == 0 - 1
NoFile == 0
NoQuery == [variant |-> 0]

FileIds == 1..Len(files)
IrIds == {i \in FileIds : files[i].is_lto_obj}
AddedIds == {i \in FileIds : files[i].origin = "added"}

\* the thread of control is at p and not inside a handler
At(p) == pc = p /\ psyms_out = NoQuery

\* a hook of the backend is running, so the backend can call a handler
InBackend == pc \in {"onload", "claim", "asr", "cleanup"} /\ psyms_out = NoQuery


Init ==
  /\ phase = 0
  /\ once_flag = FALSE
  /\ claim_file_hook = FALSE
  /\ all_symbols_read_hook = FALSE
  /\ cleanup_hook = FALSE
  /\ plugin_symbols = <<>>
  /\ file_priority = FirstAddedPriority
  /\ plugin_arg \in BOOLEAN
  /\ files = <<>>
  /\ objs = <<>>
  /\ symtab = [n \in Names |-> NotInterned]
  /\ ctx_file_priority = FirstCtxPriority
  /\ pc = "idle"
  /\ cur = NoFile
  /\ failure = "none"
  /\ psyms_out = NoQuery
  /\ load_calls = 0
  /\ onload_calls = 0
  /\ asr_calls = 0
  /\ cleanup_calls = FALSE
  /\ enumerated = <<>>
  /\ conv_in = SessionSymbol("foo", "LDPK_DEF")
  /\ conv_out = ZeroElfSym

\* Fatal(ctx), a failed assert(), unreachable(), a call through a null pointer:
\* the process ends
Fail(reason) == pc' = "exit" /\ failure' = reason

\* ------------------------------------------------- the link-wide symbol table
\* (linker core: get_symbol, ObjectFile::parse, ObjectFile::resolve_symbols)

\* get_symbol(ctx, name): the entry for name, created without an owner
get_symbol(st, name) == IF st[name] = NotInterned THEN [st EXCEPT ![name] = NoFile] ELSE st

RECURSIVE intern_all(_, _, _)
intern_all(st, names, i) ==
  IF i > Len(names) THEN st
  ELSE intern_all(IF names[i] = NullSym THEN st ELSE get_symbol(st, names[i]), names, i + 1)

is_undef(esym) == esym.st_shndx = "SHN_UNDEF"

\* strong definition 1, weak definition 2, common symbol 3, no definition 4
strength(esym) ==
  IF is_undef(esym) THEN 4
  ELSE IF esym.st_shndx = "SHN_COMMON" THEN 3
  ELSE IF esym.st_bind = "STB_WEAK" THEN 2
  ELSE 1

index_of(syms, name) == CHOOSE i \in 2..Len(syms) : syms[i] = name

\* the rank of the definition that owns name now
owner_rank(fs, st, name) ==
  IF st[name] = NoFile THEN [s |-> 4, p |-> 0]
  ELSE LET o == fs[st[name]]
       IN [s |-> strength(o.elf_syms[index_of(o.symbols, name)]), p |-> o.priority]

\* strong over weak over common; among equals the lower file priority wins,
\* so the first definition wins among inputs numbered in discovery order
rank_less(a, b) == a.s < b.s \/ (a.s = b.s /\ a.p < b.p)

RECURSIVE resolve_from(_, _, _, _)
resolve_from(fs, st, f, i) ==
  IF i > Len(fs[f].symbols) THEN st
  ELSE LET name == fs[f].symbols[i]
           esym == fs[f].elf_syms[i]
           mine == [s |-> strength(esym), p |-> fs[f].priority]
           st1 == IF ~is_undef(esym) /\ rank_less(mine, owner_rank(fs, st, name))
                  THEN [st EXCEPT ![name] = f] ELSE st
       IN resolve_from(fs, st1, f, i + 1)

\* file->resolve_symbols(ctx): first_global is 1, the entry after the null one
resolve_symbols(fs, st, f) == resolve_from(fs, st, f, 2)

RECURSIVE resolve_files(_, _, _, _)
resolve_files(fs, st, active, f) ==
  IF f > Len(fs) THEN st
  ELSE resolve_files(fs, IF f \in active THEN resolve_symbols(fs, st, f) ELSE st,
                     active, f + 1)

SeqRange(s) == {s[i] : i \in 1..Len(s)}

\* an ELF file as the ordinary loader parses it: null entry, then its symbols
parsed_file(img, dso, prio, from) ==
  [is_dso |-> dso, is_lto_obj |-> FALSE, is_alive |-> TRUE, priority |-> prio,
   symbols |-> <<NullSym>> \o [i \in 1..Len(img) |-> img[i].name],
   elf_syms |-> <<ZeroElfSym>> \o [i \in 1..Len(img) |-> img[i].esym],
   origin |-> from, born |-> phase]

\* ------------------------------------------------------------ read_lto_object

\* the test of the -plugin option left out
plugin_empty_ignored == FALSE

\* if (ctx.arg.plugin.empty())
plugin_empty == ~plugin_arg

\* load_plugin called without the std::call_once guard
needs_load_always == TRUE

\* std::call_once(flag, ...): the loader still has to run
needs_load == ~once_flag

\* Lines 461-482: create the object, open the backing file, call claim_file_hook.
read_lto_object_claim(open_ok) ==
  LET obj == [is_dso |-> FALSE, is_lto_obj |-> TRUE, is_alive |-> FALSE, priority |-> 0,
              symbols |-> <<NullSym>>, elf_syms |-> <<>>, origin |-> "ingest",
              born |-> phase]
  IN /\ files' = Append(files, obj)
     /\ IF ~open_ok THEN Fail("fatal_open") /\ cur' = cur
        ELSE IF ~claim_file_hook THEN Fail("crash") /\ cur' = cur
        ELSE pc' = "claim" /\ failure' = failure /\ cur' = Len(files) + 1

\* load_plugin up to the call of onload
load_plugin(dlopen_ok, dlsym_ok) ==
  /\ load_calls' = load_calls + 1
  /\ IF phase # 0
     THEN Fail("assert_load_plugin") /\ UNCHANGED <<phase, onload_calls>>
     ELSE /\ phase' = 1
          /\ IF ~dlopen_ok THEN Fail("fatal_dlopen") /\ UNCHANGED onload_calls
             ELSE IF ~dlsym_ok THEN Fail("fatal_dlsym") /\ UNCHANGED onload_calls
             ELSE pc' = "onload" /\ failure' = failure /\ onload_calls' = onload_calls + 1

\* The core offers an IR object: read_lto_object from its entry to the first
\* call into the backend (onload on the first call, claim_file_hook later).
ReadLtoObject(open_ok, dlopen_ok, dlsym_ok) ==
  /\ At("idle")
  /\ Len(files) < MaxFiles
  /\ IF plugin_empty
     THEN /\ Fail("fatal_no_plugin")
          /\ UNCHANGED <<phase, load_calls, onload_calls, files, cur>>
     ELSE IF needs_load
     THEN /\ load_plugin(dlopen_ok, dlsym_ok)
          /\ UNCHANGED <<files, cur>>
     ELSE /\ read_lto_object_claim(open_ok)
          /\ UNCHANGED <<phase, load_calls, onload_calls>>
  /\ psyms_out' = NoQuery
  /\ UNCHANGED <<once_flag, claim_file_hook, all_symbols_read_hook, cleanup_hook,
                 plugin_symbols, file_priority, plugin_arg, objs, symtab,
                 ctx_file_priority, asr_calls, cleanup_calls, enumerated, conv_in, conv_out>>

\* onload returns: call_once is satisfied and read_lto_object goes on.
OnloadReturn(open_ok) ==
  /\ At("onload")
  /\ claim_file_hook /\ all_symbols_read_hook
  /\ once_flag' = TRUE
  /\ read_lto_object_claim(open_ok)
  /\ psyms_out' = NoQuery
  /\ UNCHANGED <<phase, claim_file_hook, all_symbols_read_hook, cleanup_hook,
                 plugin_symbols, file_priority, plugin_arg, objs, symtab,
                 ctx_file_priority, load_calls, onload_calls, asr_calls,
                 cleanup_calls, enumerated, conv_in, conv_out>>

\* Lines 485-497: one ELF symbol and one interned symbol per plugin symbol.
synthesize(obj, psyms) ==
  [obj EXCEPT !.symbols = <<NullSym>> \o [i \in 1..Len(psyms) |-> psyms[i].name],
              !.elf_syms = <<ZeroElfSym>> \o [i \in 1..Len(psyms) |-> to_elf_sym(psyms[i])]]

\* The caller of read_lto_object (linker core): number the object, mark it
\* alive, append it to ctx.objs.
register_ir_object(obj) == [obj EXCEPT !.priority = ctx_file_priority, !.is_alive = TRUE]

\* claim_file_hook returns: lines 483-497, then the caller's registration.
ClaimReturn(claimed) ==
  /\ At("claim")
  /\ IF ~claimed
     THEN /\ Fail("assert_claimed")
          /\ UNCHANGED <<files, objs, symtab, plugin_symbols, ctx_file_priority, cur>>
     ELSE LET obj == synthesize(files[cur], plugin_symbols)
          IN /\ files' = [files EXCEPT ![cur] = register_ir_object(obj)]
             /\ symtab' = intern_all(symtab, obj.symbols, 1)
             /\ plugin_symbols' = <<>>
             /\ objs' = Append(objs, cur)
             /\ ctx_file_priority' = ctx_file_priority + 1
             /\ cur' = NoFile
             /\ pc' = "idle"
             /\ failure' = failure
  /\ enumerated' = <<>>
  /\ psyms_out' = NoQuery
  /\ UNCHANGED <<phase, once_flag, claim_file_hook, all_symbols_read_hook, cleanup_hook,
                 file_priority, plugin_arg, load_calls, onload_calls,
                 asr_calls, cleanup_calls, conv_in, conv_out>>

\* ------------------------------------------------- handlers the backend calls

\* The capability table load_plugin hands to onload: tag -> handler, for the
\* handlers modelled here.
tv ==
  [LDPT_REGISTER_CLAIM_FILE_HOOK |-> "register_claim_file_hook",
   LDPT_REGISTER_ALL_SYMBOLS_READ_HOOK |-> "register_all_symbols_read_hook",
   LDPT_REGISTER_CLEANUP_HOOK |-> "register_cleanup_hook",
   LDPT_ADD_SYMBOLS |-> "add_symbols",
   LDPT_GET_SYMBOLS |-> "get_symbols_v1",
   LDPT_ADD_INPUT_FILE |-> "add_input_file",
   LDPT_GET_SYMBOLS_V2 |-> "get_symbols_v2",
   LDPT_GET_SYMBOLS_V3 |-> "get_symbols_v3"]

\* the backend was handed this handler, so it can call it
advertised(handler) == \E tag \in DOMAIN tv : tv[tag] = handler

RegisterClaimFileHook ==
  /\ At("onload")
  /\ advertised("register_claim_file_hook")
  /\ ~claim_file_hook
  /\ claim_file_hook' = TRUE
  /\ psyms_out' = NoQuery
  /\ UNCHANGED <<phase, once_flag, all_symbols_read_hook, cleanup_hook, plugin_symbols,
                 file_priority, plugin_arg, files, objs, symtab, ctx_file_priority, pc,
                 cur, failure, load_calls, onload_calls, asr_calls,
                 cleanup_calls, enumerated, conv_in, conv_out>>

RegisterAllSymbolsReadHook ==
  /\ At("onload")
  /\ advertised("register_all_symbols_read_hook")
  /\ ~all_symbols_read_hook
  /\ all_symbols_read_hook' = TRUE
  /\ psyms_out' = NoQuery
  /\ UNCHANGED <<phase, once_flag, claim_file_hook, cleanup_hook, plugin_symbols,
                 file_priority, plugin_arg, files, objs, symtab, ctx_file_priority, pc,
                 cur, failure, load_calls, onload_calls, asr_calls,
                 cleanup_calls, enumerated, conv_in, conv_out>>

RegisterCleanupHook ==
  /\ At("onload")
  /\ advertised("register_cleanup_hook")
  /\ ~cleanup_hook
  /\ cleanup_hook' = TRUE
  /\ psyms_out' = NoQuery
  /\ UNCHANGED <<phase, once_flag, claim_file_hook, all_symbols_read_hook, plugin_symbols,
                 file_priority, plugin_arg, files, objs, symtab, ctx_file_priority, pc,
                 cur, failure, load_calls, onload_calls, asr_calls,
                 cleanup_calls, enumerated, conv_in, conv_out>>

\* The handle argument of add_symbols: during a claim it is the object being
\* claimed, and the records passed are the ones the backend enumerates for
\* that object. The handler itself does not look at it.
enumerated_for(psyms) == IF pc = "claim" THEN psyms ELSE enumerated

AddSymbols(psyms) ==
  /\ InBackend
  /\ advertised("add_symbols")
  /\ IF phase # 1
     THEN Fail("assert_add_symbols") /\ UNCHANGED <<plugin_symbols, enumerated>>
     ELSE /\ plugin_symbols' = psyms
          /\ enumerated' = enumerated_for(psyms)
          /\ UNCHANGED <<pc, failure>>
  /\ psyms_out' = NoQuery
  /\ UNCHANGED <<phase, once_flag, claim_file_hook, all_symbols_read_hook, cleanup_hook,
                 file_priority, plugin_arg, files, objs, symtab, ctx_file_priority,
                 cur, load_calls, onload_calls, asr_calls,
                 cleanup_calls, conv_in, conv_out>>

\* file->priority = file_priority, the counter left as it was
next_file_priority_same(p) == p

\* file->priority = file_priority++ leaves the counter one higher
next_file_priority(p) == p + 1

\* the handed-back object left out of ctx.objs
objs_push_back_skipped(os, id) == os

\* ctx.objs.push_back(file)
objs_push_back(os, id) == Append(os, id)

\* file->parse(ctx) alone, the call of resolve_symbols left out
parse_without_resolve(fs, st, id) == intern_all(st, fs[id].symbols, 1)

\* file->parse(ctx); file->resolve_symbols(ctx): the symbol table afterwards
parse_and_resolve(fs, st, id) == resolve_symbols(fs, intern_all(st, fs[id].symbols, 1), id)

AddInputFile(img, open_ok) ==
  /\ At("asr")
  /\ advertised("add_input_file")
  /\ Len(files) < MaxFiles
  /\ IF ~open_ok
     THEN /\ Fail("fatal_must_open")
          /\ UNCHANGED <<files, objs, symtab, file_priority>>
     ELSE LET file == parsed_file(img, FALSE, file_priority, "added")
              id == Len(files) + 1
          IN /\ files' = Append(files, file)
             /\ objs' = objs_push_back(objs, id)
             /\ file_priority' = next_file_priority(file_priority)
             /\ symtab' = parse_and_resolve(Append(files, file), symtab, id)
             /\ UNCHANGED <<pc, failure>>
  /\ psyms_out' = NoQuery
  /\ UNCHANGED <<phase, once_flag, claim_file_hook, all_symbols_read_hook, cleanup_hook,
                 plugin_symbols, plugin_arg, ctx_file_priority, cur, load_calls, onload_calls, asr_calls, cleanup_calls, enumerated, conv_in, conv_out>>

\* get_symbols_v1
GetSymbolsV1 ==
  /\ InBackend
  /\ advertised("get_symbols_v1")
  /\ Fail("unreachable")
  /\ psyms_out' = NoQuery
  /\ UNCHANGED <<phase, once_flag, claim_file_hook, all_symbols_read_hook, cleanup_hook,
                 plugin_symbols, file_priority, plugin_arg, files, objs, symtab,
                 ctx_file_priority, cur, load_calls, onload_calls,
                 asr_calls, cleanup_calls, enumerated, conv_in, conv_out>>

Resolutions == {"LDPR_UNDEF", "LDPR_PREVAILING_DEF", "LDPR_RESOLVED_DYN",
                "LDPR_RESOLVED_IR", "LDPR_RESOLVED_EXEC"}

\* an answer kept from the time the object was claimed, when each symbol it
\* defines had no other owner: the current owner is not looked at
get_resolution_as_claimed(fs, st, h, name) ==
  IF \E i \in 2..Len(fs[h].symbols) :
       fs[h].symbols[i] = name /\ fs[h].elf_syms[i].st_shndx # "SHN_UNDEF"
  THEN "LDPR_PREVAILING_DEF" ELSE "LDPR_UNDEF"

\* the lambda with the owner's IR flag tested before the identity test
get_resolution_ir_first(fs, st, h, name) ==
  LET o == st[name]
  IN IF o = NoFile THEN "LDPR_UNDEF"
     ELSE IF fs[o].is_dso THEN "LDPR_RESOLVED_DYN"
     ELSE IF fs[o].is_lto_obj THEN "LDPR_RESOLVED_IR"
     ELSE IF o = h THEN "LDPR_PREVAILING_DEF"
     ELSE "LDPR_RESOLVED_EXEC"

\* the lambda without the test sym.file == &file
get_resolution_no_self(fs, st, h, name) ==
  LET o == st[name]
  IN IF o = NoFile THEN "LDPR_UNDEF"
     ELSE IF fs[o].is_dso THEN "LDPR_RESOLVED_DYN"
     ELSE IF fs[o].is_lto_obj THEN "LDPR_RESOLVED_IR"
     ELSE "LDPR_RESOLVED_EXEC"

\* the get_resolution lambda of get_symbols
get_resolution(fs, st, h, name) ==
  LET o == st[name]
  IN IF o = NoFile THEN "LDPR_UNDEF"
     ELSE IF o = h THEN "LDPR_PREVAILING_DEF"
     ELSE IF fs[o].is_dso THEN "LDPR_RESOLVED_DYN"
     ELSE IF fs[o].is_lto_obj THEN "LDPR_RESOLVED_IR"
     ELSE "LDPR_RESOLVED_EXEC"

\* request i (from 1) reads file.symbols[i] of the source, the entry after the
\* null one and the i - 1 before it
in_range(h, i) == i + 1 <= Len(files[h].symbols)

\* get_symbols: status and the resolution field of each of the nsyms records;
\* wild is what a read past the end of file.symbols happens to yield
get_symbols(h, nsyms, wild) ==
  IF ~files[h].is_alive
  THEN [status |-> "LDPS_NO_SYMS", resolution |-> [i \in 1..nsyms |-> "LDPR_PREEMPTED_REG"]]
  ELSE [status |-> "LDPS_OK",
        resolution |-> [i \in 1..nsyms |->
                          IF in_range(h, i)
                          THEN get_resolution(files, symtab, h, files[h].symbols[i + 1])
                          ELSE wild]]

get_symbols_v2_keeps_status(st) == st

\* return (st == LDPS_NO_SYMS) ? LDPS_OK : st
get_symbols_v2_status(st) == IF st = "LDPS_NO_SYMS" THEN "LDPS_OK" ELSE st

get_symbols_v3_status(st) == st

reads_past_end(h, nsyms) == files[h].is_alive /\ \E i \in 1..nsyms : ~in_range(h, i)

\* get_symbols_v2 (variant 2) and get_symbols_v3 (variant 3)
GetSymbols(variant, h, nsyms, wild) ==
  /\ InBackend
  /\ advertised(IF variant = 2 THEN "get_symbols_v2" ELSE "get_symbols_v3")
  /\ pc = "asr" \/ (pc = "cleanup" /\ phase = 2)
  /\ IF reads_past_end(h, nsyms) /\ wild = "crash"
     THEN Fail("crash") /\ psyms_out' = NoQuery
     ELSE LET r == get_symbols(h, nsyms, wild)
          IN /\ psyms_out' = [variant |-> variant, handle |-> h, nsyms |-> nsyms,
                              inner |-> r.status,
                              status |-> IF variant = 2 THEN get_symbols_v2_status(r.status)
                                         ELSE get_symbols_v3_status(r.status),
                              resolution |-> r.resolution]
             /\ UNCHANGED <<pc, failure>>
  /\ UNCHANGED <<phase, once_flag, claim_file_hook, all_symbols_read_hook, cleanup_hook,
                 plugin_symbols, file_priority, plugin_arg, files, objs, symtab,
                 ctx_file_priority, cur, load_calls, onload_calls, asr_calls,
                 cleanup_calls, enumerated, conv_in, conv_out>>

\* get_symbols_v2 or get_symbols_v3 returns to the backend
GetSymbolsReturn ==
  /\ psyms_out # NoQuery
  /\ psyms_out' = NoQuery
  /\ UNCHANGED <<phase, once_flag, claim_file_hook, all_symbols_read_hook, cleanup_hook,
                 plugin_symbols, file_priority, plugin_arg, files, objs, symtab,
                 ctx_file_priority, pc, cur, failure, load_calls, onload_calls,
                 asr_calls, cleanup_calls, enumerated, conv_in, conv_out>>

\* A read past the end of file.symbols is undefined: the call crashes, or the
\* record gets a resolution nothing determines.
WildReads(h, nsyms) ==
  IF reads_past_end(h, nsyms) THEN {"crash", "indeterminate"} ELSE {"indeterminate"}

\* the symbol counts the backend asks about: the number of records it
\* enumerated for the object, or one more
QueryCounts(h) == {Len(files[h].symbols) - 1, Len(files[h].symbols)}

\* ------------------------------------------------------------------- do_lto

\* do_lto without its assertion
do_lto_phase_unchecked == TRUE

\* do_lto asserting only that the plugin was loaded
do_lto_phase_loaded == phase # 0

\* assert(phase == 1) of do_lto
do_lto_phase_ok == phase = 1

\* do_lto from its entry to the call of all_symbols_read_hook
DoLto ==
  /\ At("idle")
  /\ IF ~do_lto_phase_ok
     THEN Fail("assert_do_lto") /\ UNCHANGED <<phase, asr_calls>>
     ELSE /\ phase' = 2
          /\ IF ~all_symbols_read_hook
             THEN Fail("crash") /\ UNCHANGED asr_calls
             ELSE pc' = "asr" /\ failure' = failure /\ asr_calls' = asr_calls + 1
  /\ psyms_out' = NoQuery
  /\ UNCHANGED <<once_flag, claim_file_hook, all_symbols_read_hook, cleanup_hook,
                 plugin_symbols, file_priority, plugin_arg, files, objs, symtab,
                 ctx_file_priority, cur, load_calls, onload_calls,
                 cleanup_calls, enumerated, conv_in, conv_out>>

\* an erase that drops the first IR object only
erase_first_ir_obj(os, fs) ==
  SelectSeq(os, LAMBDA f : ~fs[f].is_lto_obj \/ \E g \in SeqRange(os) : g < f /\ fs[g].is_lto_obj)

\* the loop over ctx.objs left out: no object is marked
retire_none(os, fs) == fs

\* for (file : ctx.objs) if (file->is_lto_obj) file->is_alive = false
retire_ir_objs(os, fs) ==
  [f \in 1..Len(fs) |->
     IF f \in SeqRange(os) /\ fs[f].is_lto_obj THEN [fs[f] EXCEPT !.is_alive = FALSE]
     ELSE fs[f]]

\* std::erase_if(ctx.objs, is_lto_obj)
erase_ir_objs(os, fs) == SelectSeq(os, LAMBDA f : ~fs[f].is_lto_obj)

\* all_symbols_read_hook returns: lines 512-517
AllSymbolsReadReturn ==
  /\ At("asr")
  /\ files' = retire_ir_objs(objs, files)
  /\ objs' = erase_ir_objs(objs, files)
  /\ pc' = "idle"
  /\ psyms_out' = NoQuery
  /\ UNCHANGED <<phase, once_flag, claim_file_hook, all_symbols_read_hook, cleanup_hook,
                 plugin_symbols, file_priority, plugin_arg, symtab, ctx_file_priority,
                 cur, failure, load_calls, onload_calls, asr_calls,
                 cleanup_calls, enumerated, conv_in, conv_out>>

\* -------------------------------------------------------------- lto_cleanup

\* cleanup_hook() called without the test of the pointer
cleanup_hook_assumed == TRUE

\* if (cleanup_hook)
cleanup_hook_set == cleanup_hook

LtoCleanup ==
  /\ At("idle")
  /\ cleanup_calls' = TRUE
  /\ pc' = IF cleanup_hook_set THEN "cleanup" ELSE pc
  /\ psyms_out' = NoQuery
  /\ UNCHANGED <<phase, once_flag, claim_file_hook, all_symbols_read_hook, cleanup_hook,
                 plugin_symbols, file_priority, plugin_arg, files, objs, symtab,
                 ctx_file_priority, cur, failure, load_calls, onload_calls,
                 asr_calls, enumerated, conv_in, conv_out>>

CleanupReturn ==
  /\ At("cleanup")
  /\ pc' = "idle"
  /\ psyms_out' = NoQuery
  /\ UNCHANGED <<phase, once_flag, claim_file_hook, all_symbols_read_hook, cleanup_hook,
                 plugin_symbols, file_priority, plugin_arg, files, objs, symtab,
                 ctx_file_priority, cur, failure, load_calls, onload_calls,
                 asr_calls, cleanup_calls, enumerated, conv_in, conv_out>>

\* ------------------------------------------------------------ the linker core

\* The core reads an ordinary input: a relocatable object or a shared object.
ReadFile(img, dso) ==
  /\ At("idle")
  /\ Len(files) < MaxFiles
  /\ LET file == parsed_file(img, dso, ctx_file_priority, "core")
     IN /\ files' = Append(files, file)
        /\ objs' = IF dso THEN objs ELSE Append(objs, Len(files) + 1)
        /\ symtab' = intern_all(symtab, file.symbols, 1)
  /\ ctx_file_priority' = ctx_file_priority + 1
  /\ psyms_out' = NoQuery
  /\ UNCHANGED <<phase, once_flag, claim_file_hook, all_symbols_read_hook, cleanup_hook,
                 plugin_symbols, file_priority, plugin_arg, pc, cur, failure, load_calls, onload_calls, asr_calls, cleanup_calls, enumerated, conv_in, conv_out>>

\* The core's resolution pass over the active objects and the shared objects.
ResolveSymbols ==
  /\ At("idle")
  /\ symtab' = resolve_files(files, symtab,
                             SeqRange(objs) \cup {f \in FileIds : files[f].is_dso}, 1)
  /\ symtab' # symtab
  /\ psyms_out' = NoQuery
  /\ UNCHANGED <<phase, once_flag, claim_file_hook, all_symbols_read_hook, cleanup_hook,
                 plugin_symbols, file_priority, plugin_arg, files, objs,
                 ctx_file_priority, pc, cur, failure, load_calls,
                 onload_calls, asr_calls, cleanup_calls, enumerated, conv_in, conv_out>>

\* ------------------------------------------------------------ specifications

Next ==
  \/ \E open_ok, dlopen_ok, dlsym_ok \in BOOLEAN : ReadLtoObject(open_ok, dlopen_ok, dlsym_ok)
  \/ \E open_ok \in BOOLEAN : OnloadReturn(open_ok)
  \/ \E claimed \in BOOLEAN : ClaimReturn(claimed)
  \/ RegisterClaimFileHook
  \/ RegisterAllSymbolsReadHook
  \/ RegisterCleanupHook
  \/ \E psyms \in (IF pc = "claim" THEN PluginInputs ELSE StrayInputs) : AddSymbols(psyms)
  \/ \E img \in ElfInputs, open_ok \in BOOLEAN : AddInputFile(img, open_ok)
  \/ GetSymbolsV1
  \/ \E variant \in {2, 3}, h \in IrIds :
       \E nsyms \in QueryCounts(h) :
         \E wild \in WildReads(h, nsyms) : GetSymbols(variant, h, nsyms, wild)
  \/ GetSymbolsReturn
  \/ DoLto
  \/ AllSymbolsReadReturn
  \/ LtoCleanup
  \/ CleanupReturn
  \/ \E img \in CoreInputs, dso \in BOOLEAN : ReadFile(img, dso)
  \/ ResolveSymbols

Spec == Init /\ [][Next]_vars

\* to_elf_sym on its own: one plugin symbol record converted per run.
InitElf ==
  /\ phase = 0
  /\ once_flag = FALSE
  /\ claim_file_hook = FALSE
  /\ all_symbols_read_hook = FALSE
  /\ cleanup_hook = FALSE
  /\ plugin_symbols = <<>>
  /\ file_priority = FirstAddedPriority
  /\ plugin_arg = TRUE
  /\ files = <<>>
  /\ objs = <<>>
  /\ symtab = [n \in Names |-> NotInterned]
  /\ ctx_file_priority = FirstCtxPriority
  /\ pc = "to_elf_sym"
  /\ cur = NoFile
  /\ failure = "none"
  /\ psyms_out = NoQuery
  /\ load_calls = 0
  /\ onload_calls = 0
  /\ asr_calls = 0
  /\ cleanup_calls = FALSE
  /\ enumerated = <<>>
  /\ conv_in \in PluginSymbol
  /\ conv_out = ZeroElfSym

ToElfSym ==
  /\ pc = "to_elf_sym"
  /\ conv_out' = to_elf_sym(conv_in)
  /\ pc' = "converted"
  /\ UNCHANGED <<phase, once_flag, claim_file_hook, all_symbols_read_hook, cleanup_hook,
                 plugin_symbols, file_priority, plugin_arg, files, objs, symtab,
                 ctx_file_priority, cur, failure, psyms_out, load_calls, onload_calls,
                 asr_calls, cleanup_calls, enumerated, conv_in>>

NextElf == ToElfSym

SpecElf == InitElf /\ [][NextElf]_vars

\* ------------------------------------------------------------------ claims

\* IR objects read_lto_object has returned (the caller has numbered them)
ReturnedIr == {i \in IrIds : files[i].priority # 0}

\* IR objects ingested before do_lto was called
OriginalIr == {i \in ReturnedIr : files[i].born = 1}

Defines(f, n) ==
  \E i \in 2..Len(files[f].symbols) :
    files[f].symbols[i] = n /\ ~is_undef(files[f].elf_syms[i])

References(f, n) ==
  \E i \in 2..Len(files[f].symbols) :
    files[f].symbols[i] = n /\ is_undef(files[f].elf_syms[i])

\* C1: when do_lto returns, ctx.objs holds no object flagged is_lto_obj.
C1_NoIrObjectAfterDoLto ==
  [][(pc = "asr" /\ pc' = "idle") =>
       \A k \in 1..Len(objs') : ~files'[objs'[k]].is_lto_obj]_vars

\* do_lto has returned after two IR objects were ingested and an object handed back
C1_Witness ==
  /\ pc = "idle" /\ asr_calls = 1 /\ failure = "none"
  /\ Cardinality(OriginalIr) >= 2
  /\ AddedIds # {}
  /\ \A k \in 1..Len(objs) : ~files[objs[k]].is_lto_obj

\* The scenario of C2, once do_lto has returned: IR object a defines foo, IR
\* object b references it, both ingested before do_lto; the one object c
\* handed back defines foo and bar.
C2_Scenario(a, b, c) ==
  /\ FileIds = {a, b, c}
  /\ OriginalIr = {a, b} /\ a # b
  /\ files[a].symbols = <<NullSym, "foo">> /\ Defines(a, "foo")
  /\ files[b].symbols = <<NullSym, "foo">> /\ References(b, "foo")
  /\ files[c].origin = "added"
  /\ Defines(c, "foo") /\ Defines(c, "bar")

C3_RetiredObjectQuery ==
  psyms_out # NoQuery =>
    IF ~files[psyms_out.handle].is_alive
    THEN /\ Len(psyms_out.resolution) = psyms_out.nsyms
         /\ \A i \in 1..psyms_out.nsyms : psyms_out.resolution[i] = "LDPR_PREEMPTED_REG"
         /\ psyms_out.inner = "LDPS_NO_SYMS"
         /\ psyms_out.variant = 2 => psyms_out.status = "LDPS_OK"
         /\ psyms_out.variant = 3 => psyms_out.status = "LDPS_NO_SYMS"
    ELSE psyms_out.status = "LDPS_OK"

\* get_symbols_v2 has answered a query about a retired object's symbols
C3_Witness ==
  /\ psyms_out # NoQuery
  /\ psyms_out.variant = 2
  /\ psyms_out.nsyms >= 1
  /\ ~files[psyms_out.handle].is_alive
  /\ psyms_out.handle \in OriginalIr
  /\ psyms_out.status = "LDPS_OK"

\* the outcome the design gives for a symbol of object h owned by o
ExpectedResolution(h, o) ==
  IF o = NoFile THEN "LDPR_UNDEF"
  ELSE IF o = h THEN "LDPR_PREVAILING_DEF"
  ELSE IF files[o].is_dso THEN "LDPR_RESOLVED_DYN"
  ELSE IF files[o].is_lto_obj THEN "LDPR_RESOLVED_IR"
  ELSE "LDPR_RESOLVED_EXEC"

\* C4: on a live object every requested symbol the object has is classified
\* from its current owner: none -> undefined, the object itself -> prevailing,
\* a shared object -> resolved-to-dynamic, another IR object ->
\* resolved-to-other-IR, anything else -> resolved-to-regular.
C4_ClassifiedByOwner ==
  (psyms_out # NoQuery /\ files[psyms_out.handle].is_alive) =>
    \A i \in 1..psyms_out.nsyms :
      in_range(psyms_out.handle, i) =>
        /\ psyms_out.resolution[i] \in Resolutions
        /\ psyms_out.resolution[i] =
             ExpectedResolution(psyms_out.handle,
                                symtab[files[psyms_out.handle].symbols[i + 1]])

\* one query whose two symbols are owned by the object itself and by a shared object
C4_Witness ==
  /\ psyms_out # NoQuery
  /\ files[psyms_out.handle].is_alive
  /\ psyms_out.nsyms = 2
  /\ psyms_out.resolution = <<"LDPR_RESOLVED_DYN", "LDPR_PREVAILING_DEF">>

\* the resolution pass has run since the last input was read
ResolutionHasRun ==
  resolve_files(files, symtab, SeqRange(objs) \cup {f \in FileIds : files[f].is_dso}, 1)
    = symtab

\* IR object d defines s, IR object u references it, nothing else defines it
C5_Pair(d, u, s) ==
  /\ d \in ReturnedIr /\ u \in ReturnedIr /\ d # u
  /\ files[d].is_alive /\ files[u].is_alive
  /\ Defines(d, s) /\ References(u, s)
  /\ \A f \in FileIds \ {d} : ~Defines(f, s)
  /\ ResolutionHasRun

\* C5: for such a pair a query on the defining object reports s prevailing and
\* a query on the referencing object reports it resolved to another IR object.
C5_DefinerPrevails ==
  psyms_out # NoQuery =>
    \A i \in 1..psyms_out.nsyms :
      in_range(psyms_out.handle, i) =>
        LET h == psyms_out.handle
            s == files[h].symbols[i + 1]
        IN /\ (\E u \in FileIds : C5_Pair(h, u, s)) =>
                psyms_out.resolution[i] = "LDPR_PREVAILING_DEF"
           /\ (\E d \in FileIds : C5_Pair(d, h, s)) =>
                psyms_out.resolution[i] = "LDPR_RESOLVED_IR"

\* the defining object of such a pair has been asked about the symbol
C5_Witness ==
  /\ psyms_out # NoQuery
  /\ psyms_out.nsyms >= 1
  /\ in_range(psyms_out.handle, 1)
  /\ \E u \in FileIds : C5_Pair(psyms_out.handle, u, files[psyms_out.handle].symbols[2])
  /\ psyms_out.resolution[1] = "LDPR_PREVAILING_DEF"

\* C6: to_elf_sym maps the definition kind exactly (defined -> absolute, not
\* weak; weak-defined -> absolute, weak; undefined -> undefined index, not
\* weak; weak-undefined -> undefined index, weak; common -> common index, not
\* weak), the binding is weak iff the kind is a weak variant whatever the
\* other fields are, the type maps unknown -> none, function -> function,
\* variable -> object, and visibility and size are copied.
C6_ToElfSymExact ==
  pc = "converted" =>
    /\ conv_out.st_shndx =
         (CASE conv_in.def \in {"LDPK_DEF", "LDPK_WEAKDEF"} -> "SHN_ABS"
            [] conv_in.def \in {"LDPK_UNDEF", "LDPK_WEAKUNDEF"} -> "SHN_UNDEF"
            [] conv_in.def = "LDPK_COMMON" -> "SHN_COMMON")
    /\ (conv_out.st_bind = "STB_WEAK") <=> (conv_in.def \in {"LDPK_WEAKDEF", "LDPK_WEAKUNDEF"})
    /\ conv_out.st_type =
         (CASE conv_in.symbol_type = "LDST_UNKNOWN" -> "STT_NOTYPE"
            [] conv_in.symbol_type = "LDST_FUNCTION" -> "STT_FUNC"
            [] conv_in.symbol_type = "LDST_VARIABLE" -> "STT_OBJECT")
    /\ conv_out.st_visibility =
         (CASE conv_in.visibility = "LDPV_DEFAULT" -> "STV_DEFAULT"
            [] conv_in.visibility = "LDPV_PROTECTED" -> "STV_PROTECTED"
            [] conv_in.visibility = "LDPV_INTERNAL" -> "STV_INTERNAL"
            [] conv_in.visibility = "LDPV_HIDDEN" -> "STV_HIDDEN")
    /\ conv_out.st_size = conv_in.size

\* a weak-undefined, hidden variable of size 8 has been converted
C6_Witness ==
  /\ pc = "converted"
  /\ conv_in.def = "LDPK_WEAKUNDEF"
  /\ conv_in.symbol_type = "LDST_VARIABLE"
  /\ conv_in.visibility = "LDPV_HIDDEN"
  /\ conv_in.size = 8
  /\ conv_out = [st_shndx |-> "SHN_UNDEF", st_bind |-> "STB_WEAK", st_type |-> "STT_OBJECT",
                 st_visibility |-> "STV_HIDDEN", st_size |-> 8]

\* C7: however many times read_lto_object is called, before or after do_lto,
\* load_plugin runs once and the backend's onload is invoked once, on the
\* first ingestion; every IR object returned was read after that one load.
C7_LoadSequenceOnce ==
  /\ [](/\ load_calls <= 1
        /\ onload_calls <= 1
        /\ ReturnedIr # {} => (load_calls = 1 /\ onload_calls = 1))
  /\ [][(load_calls' # load_calls \/ onload_calls' # onload_calls) =>
          (IrIds = {} /\ phase = 0 /\ load_calls = 0 /\ onload_calls = 0)]_vars

\* two IR objects have been returned, one before and one after do_lto
C7_Witness ==
  /\ load_calls = 1 /\ onload_calls = 1
  /\ \E i, j \in ReturnedIr : files[i].born = 1 /\ files[j].born = 2

IrPrioritiesIncrease ==
  \A i, j \in ReturnedIr : i < j => files[i].priority < files[j].priority

C9_PhaseMonotonic ==
  /\ [](phase \in {0, 1, 2})
  /\ [][phase' # phase =>
          \/ /\ phase = 0 /\ phase' = 1
             /\ load_calls = 0 /\ load_calls' = 1
             /\ \E o, d, s \in BOOLEAN : ReadLtoObject(o, d, s)
          \/ /\ phase = 1 /\ phase' = 2
             /\ DoLto]_vars

\* after do_lto an IR object was ingested and the cleanup hook is running, and
\* phase is still 2
C9_Witness ==
  /\ phase = 2
  /\ asr_calls = 1
  /\ pc = "cleanup"
  /\ \E i \in ReturnedIr : files[i].born = 2

\* C10: do_lto called in phase 0 or in phase 2 fails its assertion without
\* invoking all_symbols_read_hook and without changing phase; the hook is
\* invoked only from phase 1, after the loader has run, and at most once.
C10_DoLtoSingleUse ==
  /\ [](asr_calls <= 1)
  /\ [][(DoLto /\ phase # 1) =>
          /\ failure' = "assert_do_lto" /\ pc' = "exit"
          /\ asr_calls' = asr_calls /\ phase' = phase]_vars
  /\ [][(asr_calls' # asr_calls \/ (pc # "asr" /\ pc' = "asr")) =>
          /\ DoLto
          /\ phase = 1 /\ asr_calls = 0
          /\ load_calls = 1 /\ onload_calls = 1]_vars

\* do_lto was called a second time
C10_Witness ==
  /\ failure = "assert_do_lto"
  /\ pc = "exit"
  /\ phase = 2
  /\ asr_calls = 1

\* C11: no ingestion that begins after do_lto has set phase to 2 completes:
\* no IR object returned by read_lto_object was created in phase 2, whether or
\* not the backend called add_symbols during the claim.
C11_NoIngestionAfterCompile ==
  \A i \in ReturnedIr : files[i].born # 2

\* C12: a resolution query returns only if its nsyms equals the number of
\* records synthesized for the object at claim time, and no record is filled
\* from an entry past the end of the object's symbol list.
C12_CountMismatchDetected ==
  psyms_out # NoQuery =>
    /\ psyms_out.nsyms = Len(files[psyms_out.handle].symbols) - 1
    /\ \A i \in 1..psyms_out.nsyms : psyms_out.resolution[i] # "indeterminate"

\* C13: lto_cleanup with no cleanup hook registered (the plugin never loaded
\* included) changes nothing of the session and invokes nothing; with a hook
\* registered it invokes the hook; in both cases, and when the hook returns,
\* phase, ctx.objs and the symbol table are as they were, and the call never
\* fails.
C13_CleanupSafe ==
  /\ [][LtoCleanup =>
          /\ UNCHANGED <<phase, objs, symtab, files, failure, plugin_symbols>>
          /\ IF cleanup_hook THEN pc' = "cleanup" ELSE pc' = pc]_vars
  /\ [][CleanupReturn => (pc' = "idle" /\ UNCHANGED <<phase, objs, symtab, files, failure>>)]_vars
  /\ [](pc = "cleanup" => cleanup_hook)

\* lto_cleanup was called although the plugin was never loaded
C13_Witness ==
  /\ cleanup_calls
  /\ phase = 0
  /\ ~cleanup_hook
  /\ pc = "idle"
  /\ failure = "none"

\* C14: get_symbols_v1 is never reached: a backend that calls only handlers
\* of the capability table it was handed never runs into its unreachable().
C14_VariantOneNeverReached ==
  failure # "unreachable"

\* the entries synthesis makes of a list of plugin symbol records
SynthesizedNames(psyms) == <<NullSym>> \o [k \in 1..Len(psyms) |-> psyms[k].name]

SynthesizedElfSyms(psyms) == <<ZeroElfSym>> \o [k \in 1..Len(psyms) |-> to_elf_sym(psyms[k])]

\* C15: every IR object read_lto_object returns holds the null entry
\* followed by one symbol and one ELF symbol record per plugin symbol record
\* the backend enumerated during that object's own claim, in order; an object
\* whose claim enumerated nothing holds the null entry only.
C15_RecordsOfOwnClaim ==
  [][(pc = "claim" /\ pc' = "idle") =>
       /\ files'[cur].symbols = SynthesizedNames(enumerated)
       /\ files'[cur].elf_syms = SynthesizedElfSyms(enumerated)]_vars

\* C16: plugin_symbols is empty in every state in which no read_lto_object
\* call is in progress (before the first ingestion, between ingestions,
\* during and after do_lto), whatever handlers the backend calls and whenever.
C16_EmptyOutsideIngestion ==
  pc \in {"idle", "asr", "cleanup"} => plugin_symbols = <<>>

\* a step in which add_input_file ran to its return inside the hook
HandoffStep == pc = "asr" /\ pc' = "asr" /\ Len(files') > Len(files)

\* the compiled objects in the active object set
CompiledInSet(os, fs) == {k \in 1..Len(os) : fs[os[k]].origin = "added"}

\* C17: each add_input_file handoff is processed at once, inside the call:
\* when the handler returns, exactly one new object has been appended to the
\* active object set, alive, with a fresh priority, parsed (its names
\* interned) and resolved (the table is a fixed point of its resolution, and
\* owners changed only to it), the IR objects still alive and in the set; and
\* when do_lto returns, the compiled objects in the active set are as many
\* as the handoffs the backend made.
C17_HandoffSynchronous ==
  /\ [][HandoffStep =>
         LET id == Len(files')
         IN /\ Len(files') = Len(files) + 1
            /\ objs' = Append(objs, id)
            /\ files'[id].is_alive /\ ~files'[id].is_lto_obj /\ ~files'[id].is_dso
            /\ files'[id].priority = file_priority
            /\ \A f \in 1..Len(files) :
                 files'[f] = files[f] /\ files[f].priority # files'[id].priority
            /\ \A k \in 2..Len(files'[id].symbols) :
                 symtab'[files'[id].symbols[k]] # NotInterned
            /\ resolve_symbols(files', symtab', id) = symtab'
            /\ \A n \in Names :
                 symtab'[n] # symtab[n] => symtab'[n] = id \/ symtab[n] = NotInterned
            /\ failure' = failure]_vars
  /\ [][(pc = "asr" /\ pc' = "idle") =>
         /\ Cardinality(CompiledInSet(objs', files')) = Cardinality(AddedIds)
         /\ Cardinality(AddedIds) = file_priority - FirstAddedPriority]_vars

\* do_lto has returned after the backend handed back two compiled objects
C17_Witness ==
  /\ pc = "idle" /\ failure = "none" /\ asr_calls = 1
  /\ Cardinality(AddedIds) = 2
  /\ Cardinality(CompiledInSet(objs, files)) = 2

\* the IR objects in the active object set
IrInSet == {i \in IrIds : i \in SeqRange(objs)}

\* C18: IR objects are retired only after all_symbols_read_hook has
\* returned. While the hook runs every ingested IR object is in the active
\* object set and alive, no step inside the hook changes an IR object, and a
\* query on one gets per-symbol outcomes with status LDPS_OK; an is_alive
\* flag is cleared only on the step where the hook returns, and on that step
\* every IR object that was in the set has is_alive false and is no longer
\* in the set while every other object stays; a query made later on a
\* retired object reports LDPR_PREEMPTED_REG for every record.
C18_RetiredAfterHookReturns ==
  /\ [](pc = "asr" =>
          /\ \A i \in IrIds : i \in SeqRange(objs) /\ files[i].is_alive
          /\ psyms_out # NoQuery =>
               /\ psyms_out.inner = "LDPS_OK"
               /\ \A k \in 1..psyms_out.nsyms :
                    k < Len(files[psyms_out.handle].symbols) =>
                      psyms_out.resolution[k] \in Resolutions)
  /\ [][(pc = "asr" /\ pc' = "asr") =>
          \A i \in IrIds : files'[i] = files[i] /\ i \in SeqRange(objs')]_vars
  /\ [][(\E i \in FileIds : files[i].is_alive /\ ~files'[i].is_alive) =>
          (pc = "asr" /\ pc' = "idle")]_vars
  /\ [][(pc = "asr" /\ pc' = "idle") =>
          /\ \A i \in IrInSet : ~files'[i].is_alive /\ i \notin SeqRange(objs')
          /\ \A i \in FileIds \ IrInSet : files'[i] = files[i]
          /\ objs' = SelectSeq(objs, LAMBDA f : f \notin IrInSet)]_vars
  /\ []((psyms_out # NoQuery /\ pc # "asr" /\ psyms_out.handle \in OriginalIr) =>
          /\ psyms_out.inner = "LDPS_NO_SYMS"
          /\ \A k \in 1..psyms_out.nsyms : psyms_out.resolution[k] = "LDPR_PREEMPTED_REG")

\* do_lto has returned: an IR object that defines a symbol is retired and
\* out of the set, a compiled object is in it
C18_Witness ==
  /\ pc = "idle" /\ failure = "none" /\ asr_calls = 1
  /\ \E i \in OriginalIr :
       /\ Len(files[i].symbols) > 1
       /\ ~files[i].is_alive
       /\ i \notin SeqRange(objs)
  /\ \E k \in 1..Len(objs) : objs[k] \in AddedIds

\* C19: resolution outcomes are computed from the symbol table as it is at
\* the time of the query and nothing is kept from one query to the next. A
\* query writes only the resolution fields it hands back: the owner
\* relation, the active object set, the objects with their is_alive flags,
\* the phase and the staged records are as before, and each record of an
\* alive object gets the outcome for the symbol's owner at that moment; the
\* return of the handler leaves nothing behind but the answer given. So
\* when the owner of a symbol has changed since an earlier query, the next
\* query reports the outcome for the new owner.
C19_RecomputedEachQuery ==
  /\ [][(psyms_out = NoQuery /\ psyms_out' # NoQuery) =>
          /\ UNCHANGED <<symtab, objs, files, phase, plugin_symbols, file_priority,
                         ctx_file_priority, pc, failure>>
          /\ files[psyms_out'.handle].is_alive =>
               \A i \in 1..psyms_out'.nsyms :
                 in_range(psyms_out'.handle, i) =>
                   psyms_out'.resolution[i] =
                     ExpectedResolution(psyms_out'.handle,
                                        symtab[files[psyms_out'.handle].symbols[i + 1]])]_vars
  /\ [][psyms_out # NoQuery =>
          /\ psyms_out' = NoQuery
          /\ UNCHANGED <<symtab, objs, files, phase, plugin_symbols, file_priority,
                         ctx_file_priority, pc, failure>>]_vars

\* a query on an alive IR object about a symbol it defines, after a compiled
\* object that was handed back during the hook has taken the symbol over
C19_Witness ==
  /\ psyms_out # NoQuery
  /\ pc = "asr"
  /\ files[psyms_out.handle].is_alive
  /\ \E i \in 1..psyms_out.nsyms :
       /\ in_range(psyms_out.handle, i)
       /\ Defines(psyms_out.handle, files[psyms_out.handle].symbols[i + 1])
       /\ symtab[files[psyms_out.handle].symbols[i + 1]] \in AddedIds
       /\ psyms_out.resolution[i] = "LDPR_RESOLVED_EXEC"

\* the step is a call of read_lto_object, or its continuation after onload
IngestionStep(open_ok) ==
  \/ \E dlopen_ok, dlsym_ok \in BOOLEAN : ReadLtoObject(open_ok, dlopen_ok, dlsym_ok)
  \/ OnloadReturn(open_ok)

\* the symbol table, the active object set and the IR objects handed to the
\* caller are what they were
NoPartialResult ==
  /\ UNCHANGED <<symtab, objs, ctx_file_priority>>
  /\ \A i \in 1..Len(files) : files'[i] = files[i]
  /\ \A i \in (1..Len(files')) \ (1..Len(files)) :
       files'[i].priority = 0 /\ ~files'[i].is_alive

\* C20: a fatal condition during ingestion leaves no partial result. With
\* no -plugin option every read_lto_object call fails before the plugin is
\* loaded: phase stays 0, load_plugin and onload are never run. When the
\* backing file cannot be opened the call fails before claim_file_hook is
\* invoked. In both cases no symbol is interned, no IR object is returned
\* and the active object set is unchanged.
C20_FatalLeavesNoPartialResult ==
  /\ [](~plugin_arg => phase = 0 /\ load_calls = 0 /\ onload_calls = 0 /\ ~once_flag)
  /\ [][((\E open_ok \in BOOLEAN : IngestionStep(open_ok)) /\ ~plugin_arg) =>
          /\ failure' = "fatal_no_plugin" /\ pc' = "exit"
          /\ NoPartialResult]_vars
  /\ [][(IngestionStep(FALSE) /\ pc' # "onload"
           /\ failure' \notin {"fatal_no_plugin", "assert_load_plugin",
                                "fatal_dlopen", "fatal_dlsym"}) =>
          /\ failure' = "fatal_open" /\ pc' = "exit"
          /\ cur' = NoFile
          /\ NoPartialResult]_vars
  /\ [][(failure = "none" /\ failure' \in {"fatal_no_plugin", "fatal_open"}) =>
          /\ pc \in {"idle", "onload"} /\ pc' = "exit"
          /\ NoPartialResult]_vars
  /\ [](pc = "claim" => failure = "none" /\ cur # NoFile)

\* the backing file of a second IR object could not be opened: the first
\* object and the symbol it interned are as they were, the second object was
\* created and not returned
C20_Witness ==
  /\ failure = "fatal_open" /\ pc = "exit"
  /\ objs = <<1>> /\ ReturnedIr = {1}
  /\ Len(files) = 2 /\ files[2].is_lto_obj
  /\ symtab["foo"] # NotInterned /\ symtab["bar"] = NotInterned

====
